---- MODULE Spec2Model ----
(***************************************************************************)
(* A model of registry-rs: the value codec of src/value.rs (Data::as_type, *)
(* Data::to_bytes, parse_value_type_data and their helpers) and the value  *)
(* operations set_value / delete_value / query_value that carry encoded    *)
(* values through the host registry.                                       *)
(*                                                                         *)
(* Representation of the machine integers.  TLC's integers are 32-bit      *)
(* signed, so a u32 is kept as two 16-bit limbs <<hi, lo>> (value          *)
(* hi * 65536 + lo) and a u64 as four limbs, most significant first.  A    *)
(* byte is a number in 0..255 and a UTF-16 code unit a number in 0..65535. *)
(* The crate is #![cfg(windows)], so the host is little-endian: the byte   *)
(* view of a Vec<u16> holds the low byte of every unit first.              *)
(***************************************************************************)
EXTENDS Integers, Sequences, FiniteSets, TLC

VARIABLES
    op,       \* codec: the last codec operation applied
    data,     \* codec: the Data handed to the encoder
    raw_ty,   \* codec: set_value's raw_ty = data.as_type() as u32
    vec,      \* codec: set_value's vec = data.to_bytes()
    ty,       \* codec: the u32 tag handed to parse_value_type_data
    buf,      \* codec: the Vec<u16> handed to parse_value_type_data
    result,   \* codec: what parse_value_type_data returned
    store,    \* host registry: value name -> stored (type, bytes) or absent
    written,  \* history: value name -> the Data of the last successful set_value
    pc,       \* query_value: position of the reader
    qname,    \* query_value: value_name
    sz,       \* query_value: sz after the first RegQueryValueExW
    touched,  \* history: the value was written between the reader's two calls
    qresult,  \* query_value: the returned Result<Data, Error>
    wresult,  \* set_value / delete_value: the returned Result<(), Error>
    sec,      \* RegKey: the Security the handle was opened with
    wbefore,  \* history: written[qname] when the read in flight asked the size
    writes,   \* history: writes to qname since then (0, 1, 2 = several)
    keys,     \* host: per hive, the keys that exist, as lists of components
    key,      \* the RegKey the program holds
    kop,      \* the last key operation called
    karg,     \* its path argument
    kresult,  \* the Result<RegKey, key::Error> it returned
    evalues,  \* host: the values of the enumerated key, in enumeration order
    iter,     \* iter::Values: the buffer lengths and the index
    item,     \* the last Option<Result<ValueRef, Error>> next() returned
    emodified,\* history: the key was written since values() was called
    asize,    \* util: the size asked of U16AlignedU8Vec::new
    aligned,  \* util: the U16AlignedU8Vec, its bytes and its capacity in bytes
    units16   \* util: the Vec<u16> returned by into_u16_vec

codecVars == <<op, data, raw_ty, vec, ty, buf, result>>
storeVars == <<store, written, pc, qname, sz, touched, qresult, wresult, sec, wbefore, writes>>
alignVars == <<asize, aligned, units16>>
valueVars == <<store, written, pc, qname, sz, touched, qresult, wresult,
               wbefore, writes>>
keyVars == <<keys, key, kop, karg, kresult>>
enumVars == <<evalues, iter, item, emodified>>
vars == <<op, data, raw_ty, vec, ty, buf, result,
          store, written, pc, qname, sz, touched, qresult, wresult, sec,
          wbefore, writes, keys, key, kop, karg, kresult,
          evalues, iter, item, emodified,
          asize, aligned, units16>>

----------------------------------------------------------------------------
(* Bounds of the model *)

MaxUnits == 4   \* longest Vec<u16> handed to the decoder directly
MaxText == 2    \* longest U16CString (code units, without the terminator)
MaxList == 2    \* most entries of a MultiString
MaxBin == 3     \* longest Binary payload
MaxDepth == 2   \* deepest key created, in components

\* code units: NUL, 'a', a high surrogate, a low surrogate
Units == {0, 97, 55357, 56832}
\* bytes used in Binary payloads
Bytes == {0, 1, 255}
\* 16-bit limbs of the integers: 0, 1, 0x00FF, 0x0100, 0x1234, 0x8000, 0xFEFE, 0xFFFF
Limbs == {0, 1, 255, 256, 4660, 32768, 65278, 65535}

SeqsUpTo(S, n) == UNION {[1..k -> S] : k \in 0..n}

----------------------------------------------------------------------------
(* enum Type, value.rs *)

TypeNone == 0
TypeString == 1
TypeExpandString == 2
TypeBinary == 3
TypeU32 == 4
TypeU32BE == 5
TypeLink == 6
TypeMultiString == 7
TypeResourceList == 8
TypeFullResourceDescriptor == 9
TypeResourceRequirementsList == 10
TypeU64 == 11
TypeMAX == 11

\* a small number as a u32
U32Of(n) == <<n \div 65536, n % 65536>>

(* enum Data: one record shape for all variants, unused payloads empty *)
Data(v, t, b, n, l) == [variant |-> v, text |-> t, bin |-> b, num |-> n, list |-> l]
DataNone == Data("None", <<>>, <<>>, <<>>, <<>>)
DataString(s) == Data("String", s, <<>>, <<>>, <<>>)
DataExpandString(s) == Data("ExpandString", s, <<>>, <<>>, <<>>)
DataBinary(b) == Data("Binary", <<>>, b, <<>>, <<>>)
DataU32(x) == Data("U32", <<>>, <<>>, x, <<>>)
DataU32BE(x) == Data("U32BE", <<>>, <<>>, x, <<>>)
DataLink == Data("Link", <<>>, <<>>, <<>>, <<>>)
DataMultiString(l) == Data("MultiString", <<>>, <<>>, <<>>, l)
DataResourceList == Data("ResourceList", <<>>, <<>>, <<>>, <<>>)
DataFullResourceDescriptor == Data("FullResourceDescriptor", <<>>, <<>>, <<>>, <<>>)
DataResourceRequirementsList == Data("ResourceRequirementsList", <<>>, <<>>, <<>>, <<>>)
DataU64(x) == Data("U64", <<>>, <<>>, x, <<>>)

(* Result<Data, Error> of value.rs, plus the panic of an out-of-range index *)
Ok(d) == [kind |-> "Ok", data |-> d, err |-> "", tag |-> <<>>, name |-> ""]
Err(e) == [kind |-> "Err", data |-> DataNone, err |-> e, tag |-> <<>>, name |-> ""]
ErrUnhandledType(t) == [kind |-> "Err", data |-> DataNone, err |-> "UnhandledType",
                        tag |-> t, name |-> ""]
Panic == [kind |-> "Panic", data |-> DataNone, err |-> "", tag |-> <<>>, name |-> ""]
NoResult == [kind |-> "NoResult", data |-> DataNone, err |-> "", tag |-> <<>>, name |-> ""]

----------------------------------------------------------------------------
(* Encoding: Data::as_type and Data::to_bytes *)

as_type(d) ==
    CASE d.variant = "None" -> TypeNone
      [] d.variant = "String" -> TypeString
      [] d.variant = "ExpandString" -> TypeExpandString
      [] d.variant = "Binary" -> TypeBinary
      [] d.variant = "U32" -> TypeU32
      [] d.variant = "U32BE" -> TypeU32BE
      [] d.variant = "Link" -> TypeLink
      [] d.variant = "MultiString" -> TypeMultiString
      [] d.variant = "ResourceList" -> TypeResourceList
      [] d.variant = "FullResourceDescriptor" -> TypeFullResourceDescriptor
      [] d.variant = "ResourceRequirementsList" -> TypeResourceRequirementsList
      [] d.variant = "U64" -> TypeU64

\* u16::to_le_bytes
u16_to_le_bytes(x) == <<x % 256, x \div 256>>

\* u32::to_le_bytes on the limbs <<hi, lo>>
u32_to_le_bytes(x) == u16_to_le_bytes(x[2]) \o u16_to_le_bytes(x[1])

u32_to_be_bytes_le(x) == <<x[2] % 256, x[2] \div 256, x[1] % 256, x[1] \div 256>>

\* u32::to_be_bytes on the limbs <<hi, lo>>
u32_to_be_bytes(x) == <<x[1] \div 256, x[1] % 256, x[2] \div 256, x[2] % 256>>

\* u64::to_le_bytes on four limbs, most significant first
u64_to_le_bytes(x) ==
    u16_to_le_bytes(x[4]) \o u16_to_le_bytes(x[3]) \o
    u16_to_le_bytes(x[2]) \o u16_to_le_bytes(x[1])

\* .into_iter().flat_map(|x| x.to_le_bytes().to_vec()).collect()
RECURSIVE flat_map_le_bytes(_)
flat_map_le_bytes(v) ==
    IF v = <<>> THEN <<>>
    ELSE u16_to_le_bytes(Head(v)) \o flat_map_le_bytes(Tail(v))

\* U16CString::into_vec_with_nul: the code units and the terminator
into_vec_with_nul(s) == s \o <<0>>

string_to_utf16_byte_vec_no_nul(s) == flat_map_le_bytes(s)

string_to_utf16_byte_vec(s) == flat_map_le_bytes(into_vec_with_nul(s))

\* s.iter().flat_map(|x| string_to_utf16_byte_vec(x)).collect()
RECURSIVE flat_map_strings(_)
flat_map_strings(l) ==
    IF l = <<>> THEN <<>>
    ELSE string_to_utf16_byte_vec(Head(l)) \o flat_map_strings(Tail(l))

\* followed by vec.push(0); vec.push(0): two zero BYTES
multi_string_bytes(s) == flat_map_strings(s) \o <<0, 0>>

to_bytes(d) ==
    CASE d.variant = "None" -> <<>>
      [] d.variant = "String" -> string_to_utf16_byte_vec(d.text)
      [] d.variant = "ExpandString" -> string_to_utf16_byte_vec(d.text)
      [] d.variant = "Binary" -> d.bin
      [] d.variant = "U32" -> u32_to_le_bytes(d.num)
      [] d.variant = "U32BE" -> u32_to_be_bytes(d.num)
      [] d.variant = "Link" -> <<>>
      [] d.variant = "MultiString" -> multi_string_bytes(d.list)
      [] d.variant = "ResourceList" -> <<>>
      [] d.variant = "FullResourceDescriptor" -> <<>>
      [] d.variant = "ResourceRequirementsList" -> <<>>
      [] d.variant = "U64" -> u64_to_le_bytes(d.num)

----------------------------------------------------------------------------
(* Decoding: parse_value_type_data and its helpers *)

\* results of the helpers: Result<Vec<u16>, err>, Result<Vec<Vec<u16>>, err>
HOk(v) == [ok |-> TRUE, val |-> v, err |-> ""]
HErr(e) == [ok |-> FALSE, val |-> <<>>, err |-> e]

HasNul(v) == \E i \in 1..Len(v) : v[i] = 0

\* v.iter().position(|&val| val == NUL), as a 1-based index
position_nul(v) == CHOOSE i \in 1..Len(v) : v[i] = 0 /\ \A j \in 1..(i - 1) : v[j] # 0

from_vec_with_nul_lenient(v) ==
    IF ~HasNul(v) THEN HOk(v)
    ELSE HOk(SubSeq(v, 1, position_nul(v) - 1))

\* utfx U16CString::from_vec_with_nul: MissingNulError without a NUL, else
\* the vector truncated after its FIRST NUL; the string is the units before it
from_vec_with_nul(v) ==
    IF ~HasNul(v) THEN HErr("MissingNul")
    ELSE HOk(SubSeq(v, 1, position_nul(v) - 1))

parse_wide_string_nul(v) == from_vec_with_nul(v)

\* utfx U16CString::new: NulError on any NUL in the data
U16CString_new(v) == IF HasNul(v) THEN HErr("InvalidNul") ELSE HOk(v)

\* slice::split(|x| *x == 0): the runs between separators, empty runs kept
RECURSIVE split_nul(_)
split_nul(v) ==
    IF ~HasNul(v) THEN <<v>>
    ELSE <<SubSeq(v, 1, position_nul(v) - 1)>> \o
         split_nul(SubSeq(v, position_nul(v) + 1, Len(v)))

\* .map(U16CString::new).collect::<Result<Vec<_>, _>>().map_err(InvalidNul)
collect_strings(segs) ==
    IF \E i \in 1..Len(segs) : ~U16CString_new(segs[i]).ok
    THEN HErr("InvalidNul")
    ELSE HOk([i \in 1..Len(segs) |-> U16CString_new(segs[i]).val])

parse_wide_multi_string_keep_last(v) ==
    LET len == Len(v) IN
    IF len < 2 \/ v[len] # 0 \/ v[len - 1] # 0
    THEN HErr("MissingMultiNul")
    ELSE collect_strings(split_nul(SubSeq(v, 1, len - 1)))

parse_wide_multi_string(v) ==
    LET len == Len(v) IN
    IF len < 2 \/ v[len] # 0 \/ v[len - 1] # 0
    THEN HErr("MissingMultiNul")
    ELSE collect_strings(split_nul(SubSeq(v, 1, len - 2)))

\* the byte view of the same allocation: 2 * len bytes, low byte first
u16_to_u8_vec(v) == flat_map_le_bytes(v)

u32_from_le_bytes_be(b) == <<b[1] * 256 + b[2], b[3] * 256 + b[4]>>

\* u32::from_le_bytes([b0, b1, b2, b3]) as limbs <<hi, lo>>
u32_from_le_bytes(b) == <<b[3] + 256 * b[4], b[1] + 256 * b[2]>>

\* u32::from_be_bytes([b0, b1, b2, b3]) as limbs <<hi, lo>>
u32_from_be_bytes(b) == <<b[1] * 256 + b[2], b[3] * 256 + b[4]>>

\* u64::from_le_bytes([b0 .. b7]) as four limbs, most significant first
u64_from_le_bytes(b) ==
    <<b[7] + 256 * b[8], b[5] + 256 * b[6], b[3] + 256 * b[4], b[1] + 256 * b[2]>>

Type_try_from_ge(t) ==
    IF t[1] > 0 \/ t[2] >= TypeMAX
    THEN [ok |-> FALSE, val |-> 0]
    ELSE [ok |-> TRUE, val |-> t[2]]

\* impl TryFrom<u32> for Type: ty > Type::MAX on the limbs <<hi, lo>>
Type_try_from(t) ==
    IF t[1] > 0 \/ t[2] > TypeMAX
    THEN [ok |-> FALSE, val |-> 0]
    ELSE [ok |-> TRUE, val |-> t[2]]

\* .map(Data::String) and the like on a helper's result
map_data(r, d) == IF r.ok THEN Ok(d) ELSE Err(r.err)

parse_value_type_data(t, b) ==
    LET tt == Type_try_from(t) IN
    IF ~tt.ok THEN ErrUnhandledType(t)
    ELSE
    LET tv == tt.val
        bytes == u16_to_u8_vec(b)
    IN  CASE tv = TypeNone -> Ok(DataNone)
          [] tv = TypeString ->
                LET r == parse_wide_string_nul(b) IN map_data(r, DataString(r.val))
          [] tv = TypeExpandString ->
                LET r == parse_wide_string_nul(b) IN map_data(r, DataExpandString(r.val))
          [] tv = TypeLink -> Ok(DataLink)
          [] tv = TypeMultiString ->
                LET r == parse_wide_multi_string(b) IN map_data(r, DataMultiString(r.val))
          [] tv = TypeResourceList -> Ok(DataResourceList)
          [] tv = TypeFullResourceDescriptor -> Ok(DataFullResourceDescriptor)
          [] tv = TypeResourceRequirementsList -> Ok(DataResourceRequirementsList)
          [] tv = TypeBinary -> Ok(DataBinary(bytes))
          \* buf[0] .. buf[3] / buf[7]: an index past the end panics
          [] tv = TypeU32 ->
                IF Len(bytes) < 4 THEN Panic ELSE Ok(DataU32(u32_from_le_bytes(bytes)))
          [] tv = TypeU32BE ->
                IF Len(bytes) < 4 THEN Panic ELSE Ok(DataU32BE(u32_from_be_bytes(bytes)))
          [] tv = TypeU64 ->
                IF Len(bytes) < 8 THEN Panic ELSE Ok(DataU64(u64_from_le_bytes(bytes)))

\* query_value's buffer: vec![0u16; units], then the host copies `bytes` into
\* its byte view from offset 0; bytes past the copy stay zero
read_into_u16_buf(units, bytes) ==
    LET byte(k) == IF k <= Len(bytes) THEN bytes[k] ELSE 0
    IN  [i \in 1..units |-> byte(2 * i - 1) + 256 * byte(2 * i)]

\* (sz / 2 + sz % 2) as usize
buf_units(n) == (n \div 2) + (n % 2)

----------------------------------------------------------------------------
(* The inputs of the codec *)

TextSet == SeqsUpTo(Units \ {0}, MaxText)
\* MultiString entries: "", "a", and 'a' followed by a lone low surrogate
EntrySet == {<<>>, <<97>>, <<97, 56832>>}
ListSet == SeqsUpTo(EntrySet, MaxList)
BinSet == SeqsUpTo(Bytes, MaxBin)
U32Set == {<<h, l>> : h \in Limbs, l \in Limbs}
U64Set == {<<a, b, c, d>> : a \in Limbs, b \in Limbs, c \in Limbs, d \in Limbs}

DataSet ==
    {DataNone, DataLink, DataResourceList, DataFullResourceDescriptor,
     DataResourceRequirementsList}
    \cup {DataString(s) : s \in TextSet}
    \cup {DataExpandString(s) : s \in TextSet}
    \cup {DataBinary(b) : b \in BinSet}
    \cup {DataU32(x) : x \in U32Set}
    \cup {DataU32BE(x) : x \in U32Set}
    \cup {DataMultiString(l) : l \in ListSet}
    \cup {DataU64(x) : x \in U64Set}

\* tags 0..13, 0xFFFF, 0x10000 and 0xFFFFFFFF
TagSet == {U32Of(n) : n \in 0..13} \cup {<<0, 65535>>, <<1, 0>>, <<65535, 65535>>}
BufSet == SeqsUpTo(Units, MaxUnits)

----------------------------------------------------------------------------
(* The codec as a state machine: one input is drawn and the codec applied *)

InitCodec ==
    /\ op = "init"
    /\ data = DataNone
    /\ raw_ty = U32Of(TypeNone)
    /\ vec = <<>>
    /\ ty = U32Of(TypeNone)
    /\ buf = <<>>
    /\ result = NoResult

\* set_value's first half: raw_ty = data.as_type() as u32; vec = data.to_bytes()
Encode(d) ==
    /\ op = "init"
    /\ op' = "encode"
    /\ data' = d
    /\ raw_ty' = U32Of(as_type(d))
    /\ vec' = to_bytes(d)
    /\ ty' = U32Of(TypeNone)
    /\ buf' = <<>>
    /\ result' = NoResult
    /\ UNCHANGED <<storeVars, alignVars, keyVars, enumVars>>

\* parse_value_type_data on an arbitrary tag and buffer
Decode(t, b) ==
    /\ op = "init"
    /\ op' = "decode"
    /\ ty' = t
    /\ buf' = b
    /\ result' = parse_value_type_data(t, b)
    /\ data' = DataNone
    /\ raw_ty' = U32Of(TypeNone)
    /\ vec' = <<>>
    /\ UNCHANGED <<storeVars, alignVars, keyVars, enumVars>>

\* the encoder's output, placed in a buffer of (sz / 2 + sz % 2) units as
\* query_value does, handed to parse_value_type_data with the encoder's tag
RoundTrip ==
    /\ op = "encode"
    /\ op' = "roundtrip"
    /\ ty' = raw_ty
    /\ buf' = read_into_u16_buf(buf_units(Len(vec)), vec)
    /\ result' = parse_value_type_data(raw_ty, buf')
    /\ UNCHANGED <<data, raw_ty, vec>>
    /\ UNCHANGED <<storeVars, alignVars, keyVars, enumVars>>

----------------------------------------------------------------------------
(* util.rs: U16AlignedU8Vec, a Vec<u8> carved out of a Vec<u16> allocation *)

AlignedVec(b, c) == [bytes |-> b, cap |-> c]
Zeros(n) == [i \in 1..n |-> 0]

\* U16AlignedU8Vec::new(size): vec![0u16; size / 2 + size % 2] seen as
\* len * 2 bytes, truncated to size
U16AlignedU8Vec_new(size) ==
    LET len == (size \div 2) + (size % 2)
    IN  AlignedVec(SubSeq(Zeros(len * 2), 1, size), len * 2)

\* Vec::push: when the vector is full the capacity grows (at least 8 bytes,
\* else doubled); the contents are kept
vec_push(a, b) ==
    AlignedVec(Append(a.bytes, b),
               IF Len(a.bytes) < a.cap THEN a.cap
               ELSE IF 2 * a.cap > 8 THEN 2 * a.cap ELSE 8)

\* Vec::shrink_to_fit: capacity = len
shrink_to_fit(a) == AlignedVec(a.bytes, Len(a.bytes))

\* Vec::from_raw_parts(ptr as *mut u16, len / 2, capacity / 2): the same
\* memory read as code units, low byte first
bytes_as_u16(b, len) == [i \in 1..len |-> b[2 * i - 1] + 256 * b[2 * i]]

into_u16_vec_no_pad(a) ==
    LET fit == shrink_to_fit(a)
    IN  bytes_as_u16(fit.bytes, Len(fit.bytes) \div 2)

\* U16AlignedU8Vec::into_u16_vec
into_u16_vec(a) ==
    LET remainder == Len(a.bytes) % 2
        padded == IF remainder > 0 THEN vec_push(a, 0) ELSE a
        fit == shrink_to_fit(padded)
    IN  bytes_as_u16(fit.bytes, Len(fit.bytes) \div 2)

InitAlign ==
    /\ asize = 0
    /\ aligned = AlignedVec(<<>>, 0)
    /\ units16 = <<>>

\* U16AlignedU8Vec::new(n)
AlignedNew(n) ==
    /\ op = "init"
    /\ op' = "new"
    /\ asize' = n
    /\ aligned' = U16AlignedU8Vec_new(n)
    /\ UNCHANGED units16
    /\ UNCHANGED <<data, raw_ty, vec, ty, buf, result>>
    /\ UNCHANGED <<storeVars, keyVars, enumVars>>

\* the caller (a host call) writes the bytes b through the DerefMut byte view
AlignedFill(b) ==
    /\ op = "new"
    /\ Len(b) = Len(aligned.bytes)
    /\ op' = "filled"
    /\ aligned' = AlignedVec(b, aligned.cap)
    /\ UNCHANGED <<asize, units16>>
    /\ UNCHANGED <<data, raw_ty, vec, ty, buf, result>>
    /\ UNCHANGED <<storeVars, keyVars, enumVars>>

\* U16AlignedU8Vec::into_u16_vec(self); `aligned` keeps the consumed input
IntoU16Vec ==
    /\ op \in {"new", "filled"}
    /\ op' = "into_u16_vec"
    /\ units16' = into_u16_vec(aligned)
    /\ UNCHANGED <<asize, aligned>>
    /\ UNCHANGED <<data, raw_ty, vec, ty, buf, result>>
    /\ UNCHANGED <<storeVars, keyVars, enumVars>>

----------------------------------------------------------------------------
(* The host registry behind one open RegKey, and the value operations *)

\* value names as UTF-16: "a", and a name with an interior NUL
NameA == <<97>>
NameNul == <<97, 0, 98>>
Names == {NameA}
NameArgs == {NameA, NameNul}

\* what is written through the store in the model
StoreTexts == SeqsUpTo({97}, MaxText)
StoreData ==
    {DataNone, DataU32(<<4660, 65278>>), DataU32BE(<<4660, 65278>>),
     DataU64(<<4660, 65278, 4660, 65278>>)}
    \cup {DataString(s) : s \in StoreTexts}
    \cup {DataBinary(b) : b \in SeqsUpTo({255}, MaxBin)}
    \cup {DataMultiString(l) : l \in SeqsUpTo({<<>>, <<97>>}, MaxList)}

Absent == [present |-> FALSE, ty |-> U32Of(0), bytes |-> <<>>]
Stored(t, b) == [present |-> TRUE, ty |-> t, bytes |-> b]
NotWritten == [set |-> FALSE, data |-> DataNone]
Written(d) == [set |-> TRUE, data |-> d]

\* Security bits of the handle: QueryValue = 0x1, SetValue = 0x2
SecuritySet == {"Read", "Write", "AllAccess"}
HasQueryValue(s) == s \in {"Read", "AllAccess"}
HasSetValue(s) == s \in {"Write", "AllAccess"}

\* Win32 result codes
ERROR_SUCCESS == 0
ERROR_FILE_NOT_FOUND == 2
ERROR_ACCESS_DENIED == 5
ERROR_MORE_DATA == 234

\* Result<_, value::Error> carrying the value name
ErrNamed(e, n) == [kind |-> "Err", data |-> DataNone, err |-> e, tag |-> <<>>, name |-> n]

from_code_not_found_unknown(code, n) ==
    CASE code = ERROR_ACCESS_DENIED -> ErrNamed("PermissionDenied", n)
      [] OTHER -> ErrNamed("Unknown", n)

\* value::Error::from_code: io::Error::from_raw_os_error(code).kind()
from_code(code, n) ==
    CASE code = ERROR_FILE_NOT_FOUND -> ErrNamed("NotFound", n)
      [] code = ERROR_ACCESS_DENIED -> ErrNamed("PermissionDenied", n)
      [] OTHER -> ErrNamed("Unknown", n)

\* value_name.try_into(): U16CString::new, InvalidNul on an interior NUL
name_try_into(n) == U16CString_new(n)

\* RegSetValueExW(base, name, 0, raw_ty, vec.as_ptr(), vec.len())
RegSetValueExW(n) ==
    IF HasSetValue(sec) THEN ERROR_SUCCESS ELSE ERROR_ACCESS_DENIED

\* RegDeleteValueW(base, name)
RegDeleteValueW(n) ==
    IF ~HasSetValue(sec) THEN ERROR_ACCESS_DENIED
    ELSE IF ~store[n].present THEN ERROR_FILE_NOT_FOUND
    ELSE ERROR_SUCCESS

\* RegQueryValueExW(base, name, NULL, NULL, NULL, &mut sz): the size only
RegQueryValueExW_size(n) ==
    IF ~HasQueryValue(sec) THEN ERROR_ACCESS_DENIED
    ELSE IF ~store[n].present THEN ERROR_FILE_NOT_FOUND
    ELSE ERROR_SUCCESS

\* RegQueryValueExW(base, name, NULL, &mut ty, buf, &mut sz) with sz bytes of room
RegQueryValueExW_data(n, room) ==
    IF ~HasQueryValue(sec) THEN ERROR_ACCESS_DENIED
    ELSE IF ~store[n].present THEN ERROR_FILE_NOT_FOUND
    ELSE IF Len(store[n].bytes) > room THEN ERROR_MORE_DATA
    ELSE ERROR_SUCCESS

InitStore ==
    /\ store = [n \in Names |-> Absent]
    /\ written = [n \in Names |-> NotWritten]
    /\ pc = "idle"
    /\ qname = NameA
    /\ sz = 0
    /\ touched = FALSE
    /\ qresult = NoResult
    /\ wresult = NoResult
    /\ sec \in SecuritySet
    /\ wbefore = NotWritten
    /\ writes = 0

\* a write to value n lands between the reader's two host calls
Touches(n) == touched \/ (pc = "sized" /\ qname = n)
Counts(n) ==
    IF pc = "sized" /\ qname = n
    THEN (IF writes < 2 THEN writes + 1 ELSE 2)
    ELSE writes

\* what another program stores with RegSetValueExW: text values whose byte
\* length is odd
RawSet ==
    {Stored(U32Of(TypeString), <<97, 0, 0>>),
     Stored(U32Of(TypeExpandString), <<97>>)}

\* another program writes the value n, not going through set_value
HostWrite(n, raw) ==
    /\ store' = [store EXCEPT ![n] = raw]
    /\ written' = [written EXCEPT ![n] = NotWritten]
    /\ touched' = Touches(n)
    /\ writes' = Counts(n)
    /\ UNCHANGED <<pc, qname, sz, qresult, wresult, sec, wbefore>>
    /\ UNCHANGED <<codecVars, alignVars, keyVars, enumVars>>

\* RegKey::set_value -> value::set_value
SetValue(n, d) ==
    LET name == name_try_into(n) IN
    /\ IF ~name.ok
       THEN /\ wresult' = Err(name.err)
            /\ UNCHANGED <<store, written, touched, writes>>
       ELSE LET code == RegSetValueExW(n) IN
            IF code # ERROR_SUCCESS
            THEN /\ wresult' = from_code(code, n)
                 /\ UNCHANGED <<store, written, touched, writes>>
            ELSE /\ store' = [store EXCEPT ![n] = Stored(U32Of(as_type(d)), to_bytes(d))]
                 /\ written' = [written EXCEPT ![n] = Written(d)]
                 /\ touched' = Touches(n)
                 /\ writes' = Counts(n)
                 /\ wresult' = Ok(DataNone)
    /\ UNCHANGED <<pc, qname, sz, qresult, sec, wbefore>>
    /\ UNCHANGED <<codecVars, alignVars, keyVars, enumVars>>

\* RegKey::delete_value -> value::delete_value
DeleteValue(n) ==
    LET name == name_try_into(n) IN
    /\ IF ~name.ok
       THEN /\ wresult' = Err(name.err)
            /\ UNCHANGED <<store, written, touched, writes>>
       ELSE LET code == RegDeleteValueW(n) IN
            IF code # ERROR_SUCCESS
            THEN /\ wresult' = from_code(code, n)
                 /\ UNCHANGED <<store, written, touched, writes>>
            ELSE /\ store' = [store EXCEPT ![n] = Absent]
                 /\ written' = [written EXCEPT ![n] = NotWritten]
                 /\ touched' = Touches(n)
                 /\ writes' = Counts(n)
                 /\ wresult' = Ok(DataNone)
    /\ UNCHANGED <<pc, qname, sz, qresult, sec, wbefore>>
    /\ UNCHANGED <<codecVars, alignVars, keyVars, enumVars>>

\* RegKey::value -> value::query_value, up to the first RegQueryValueExW
QuerySize(n) ==
    LET name == name_try_into(n) IN
    /\ pc \in {"idle", "done"}
    /\ touched' = FALSE
    /\ writes' = 0
    /\ IF ~name.ok
       THEN /\ qresult' = Err(name.err)
            /\ pc' = "done"
            /\ UNCHANGED <<qname, sz, wbefore>>
       ELSE LET code == RegQueryValueExW_size(n) IN
            /\ qname' = n
            /\ IF code # ERROR_SUCCESS
               THEN /\ qresult' = from_code(code, n)
                    /\ pc' = "done"
                    /\ sz' = 0
                    /\ UNCHANGED wbefore
               ELSE /\ sz' = Len(store[n].bytes)
                    /\ pc' = "sized"
                    /\ qresult' = NoResult
                    /\ wbefore' = written[n]
    /\ UNCHANGED <<store, written, wresult, sec>>
    /\ UNCHANGED <<codecVars, alignVars, keyVars, enumVars>>

\* query_value from the buffer allocation to the return
QueryData ==
    /\ pc = "sized"
    /\ pc' = "done"
    /\ LET code == RegQueryValueExW_data(qname, sz) IN
       IF code # ERROR_SUCCESS
       THEN qresult' = from_code(code, qname)
       ELSE qresult' = parse_value_type_data(store[qname].ty,
                           read_into_u16_buf(buf_units(sz), store[qname].bytes))
    /\ wbefore' = NotWritten
    /\ UNCHANGED <<store, written, qname, sz, touched, wresult, sec, writes>>
    /\ UNCHANGED <<codecVars, alignVars, keyVars, enumVars>>

----------------------------------------------------------------------------
(* key.rs, hive.rs: keys, their paths and their Display text *)

\* code units of the texts: '\', and the component names "A" and "R"
Backslash == 92
CompA == <<65>>
CompR == <<82>>

\* impl Display for Hive
HiveName(h) ==
    CASE h = "CurrentUser" ->
            <<72, 75, 69, 89, 95, 67, 85, 82, 82, 69, 78, 84, 95, 85, 83, 69, 82>>
      [] h = "Application" -> <<60, 65, 112, 112, 62>>
      [] OTHER -> <<>>

Hives == {"CurrentUser", "Application"}

\* the subpaths passed to open and create: "A", "R", "A\A", "\A", "A<NUL>A"
PathSet ==
    {<<65>>, <<82>>, <<65, 92, 65>>, <<92, 65>>, <<65, 0, 65>>}

\* HKEY: the hive, the key it designates, the access it was opened with
Handle(h, at, s) == [hive |-> h, at |-> at, sec |-> s]
\* struct RegKey { hive, handle, path }
RegKey(h, hd, p) == [hive |-> h, handle |-> hd, path |-> p]
NoKey == RegKey("None", Handle("None", <<>>, "Read"), <<>>)

\* Result<RegKey, key::Error>
KOk(k) == [kind |-> "Ok", key |-> k, err |-> "", path |-> <<>>]
KErr(e, p) == [kind |-> "Err", key |-> NoKey, err |-> e, path |-> p]
KNoResult == [kind |-> "None", key |-> NoKey, err |-> "", path |-> <<>>]

\* the host's reading of a subkey path: the components between backslashes
HasBackslash(p) == \E i \in 1..Len(p) : p[i] = Backslash
position_backslash(p) == CHOOSE i \in 1..Len(p) :
    p[i] = Backslash /\ \A j \in 1..(i - 1) : p[j] # Backslash
RECURSIVE split_path(_)
split_path(p) ==
    IF ~HasBackslash(p) THEN <<p>>
    ELSE <<SubSeq(p, 1, position_backslash(p) - 1)>> \o
         split_path(SubSeq(p, position_backslash(p) + 1, Len(p)))

Target(base, p) == base.at \o split_path(p)
Prefixes(at) == {SubSeq(at, 1, i) : i \in 0..Len(at)}

\* host access control: the key R of a hive and all below it admit reading only
ReadOnly(at) == Len(at) > 0 /\ at[1] = CompR

ERROR_BAD_PATHNAME == 161

\* RegOpenKeyExW(base, path, 0, sec.bits(), &mut hkey)
RegOpenKeyExW(base, p, s) ==
    IF p # <<>> /\ p[1] = Backslash THEN ERROR_BAD_PATHNAME
    ELSE IF Target(base, p) \notin keys[base.hive] THEN ERROR_FILE_NOT_FOUND
    ELSE IF ReadOnly(Target(base, p)) /\ s # "Read" THEN ERROR_ACCESS_DENIED
    ELSE ERROR_SUCCESS

\* RegCreateKeyExW(base, path, .., sec.bits(), .., &mut hkey, ..): opens the
\* key when it exists; creating it needs KEY_CREATE_SUB_KEY on the base
RegCreateKeyExW(base, p, s) ==
    IF p # <<>> /\ p[1] = Backslash THEN ERROR_BAD_PATHNAME
    ELSE IF Target(base, p) \in keys[base.hive] THEN RegOpenKeyExW(base, p, s)
    ELSE IF base.sec = "Read" \/ ReadOnly(Target(base, p)) THEN ERROR_ACCESS_DENIED
    ELSE ERROR_SUCCESS

\* key::Error::from_code: io::Error::from_raw_os_error(code).kind()
key_from_code(code, path) ==
    CASE code = ERROR_FILE_NOT_FOUND -> KErr("NotFound", path)
      [] code = ERROR_ACCESS_DENIED -> KErr("PermissionDenied", path)
      [] OTHER -> KErr("Unknown", path)

\* path.try_into(): U16CString::new, NulError on a NUL
path_try_into(p) == U16CString_new(p)

HandleOk(hd) == [ok |-> TRUE, handle |-> hd, err |-> KNoResult]
HandleErr(e) == [ok |-> FALSE, handle |-> NoKey.handle, err |-> e]

\* key::open_hkey
open_hkey(base, p, s) ==
    LET code == RegOpenKeyExW(base, p, s)
    IN  IF code = 0 THEN HandleOk(Handle(base.hive, Target(base, p), s))
        ELSE HandleErr(key_from_code(code, p))

\* key::create_hkey
create_hkey(base, p, s) ==
    LET code == RegCreateKeyExW(base, p, s)
    IN  IF code = 0 THEN HandleOk(Handle(base.hive, Target(base, p), s))
        ELSE HandleErr(key_from_code(code, p))

\* format!(r"{}\{}", self.path, path)
joined_path(self_path, p) == self_path \o <<Backslash>> \o p

\* RegKey::open
RegKey_open(k, p, s) ==
    LET path == path_try_into(p) IN
    IF ~path.ok THEN KErr("InvalidNul", <<>>)
    ELSE LET h == open_hkey(k.handle, path.val, s)
         IN  IF h.ok THEN KOk(RegKey(k.hive, h.handle, joined_path(k.path, path.val)))
             ELSE h.err

\* RegKey::create
RegKey_create(k, p, s) ==
    LET path == path_try_into(p) IN
    IF ~path.ok THEN KErr("InvalidNul", <<>>)
    ELSE LET h == create_hkey(k.handle, path.val, s)
         IN  IF h.ok THEN KOk(RegKey(k.hive, h.handle, joined_path(k.path, path.val)))
             ELSE h.err

\* Hive::as_hkey: the predefined handle of the hive
as_hkey(h) == Handle(h, <<>>, "AllAccess")

\* Hive::open
Hive_open(h, p, s) ==
    LET path == path_try_into(p) IN
    IF ~path.ok THEN KErr("InvalidNul", <<>>)
    ELSE LET hd == open_hkey(as_hkey(h), path.val, s)
         IN  IF hd.ok THEN KOk(RegKey(h, hd.handle, path.val)) ELSE hd.err

\* Hive::create
Hive_create(h, p, s) ==
    LET path == path_try_into(p) IN
    IF ~path.ok THEN KErr("InvalidNul", <<>>)
    ELSE LET hd == create_hkey(as_hkey(h), path.val, s)
         IN  IF hd.ok THEN KOk(RegKey(h, hd.handle, path.val)) ELSE hd.err

\* RegKey::open_current_user, RegOpenCurrentUser succeeding
open_current_user(s) ==
    KOk(RegKey("CurrentUser", Handle("CurrentUser", <<>>, s), <<>>))

\* Hive::load_file: the file must exist; the key has the empty path
load_file(exists, s) ==
    IF ~exists THEN KErr("IoNotFound", <<>>)
    ELSE KOk(RegKey("Application", Handle("Application", <<>>, s), <<>>))

\* impl Display for RegKey
Display(k) ==
    HiveName(k.hive) \o
        (IF k.path # <<>> THEN <<Backslash>> \o k.path ELSE <<>>)

\* the keys the host holds once the key `at` has been created
WithKey(ks, h, at) == [ks EXCEPT ![h] = @ \cup Prefixes(at)]

InitKey ==
    /\ keys = [h \in Hives |-> IF h = "CurrentUser" THEN {<<>>, <<CompR>>} ELSE {<<>>}]
    /\ key = open_current_user(sec).key
    /\ kop = "idle"
    /\ karg = <<>>
    /\ kresult = KNoResult

\* key.open(p, s)
KeyOpen(p, s) ==
    /\ kop' = "open"
    /\ karg' = p
    /\ kresult' = RegKey_open(key, p, s)
    /\ UNCHANGED <<keys, key, sec>>
    /\ UNCHANGED <<valueVars, codecVars, alignVars, enumVars>>

\* key.create(p, s)
KeyCreate(p, s) ==
    /\ Len(key.handle.at) + Len(split_path(p)) <= MaxDepth
    /\ kop' = "create"
    /\ karg' = p
    /\ kresult' = RegKey_create(key, p, s)
    /\ keys' = IF kresult'.kind = "Ok"
               THEN WithKey(keys, key.hive, kresult'.key.handle.at)
               ELSE keys
    /\ UNCHANGED <<key, sec>>
    /\ UNCHANGED <<valueVars, codecVars, alignVars, enumVars>>

\* Hive::CurrentUser.open(p, s)
HiveOpen(p, s) ==
    /\ kop' = "hive_open"
    /\ karg' = p
    /\ kresult' = Hive_open("CurrentUser", p, s)
    /\ UNCHANGED <<keys, key, sec>>
    /\ UNCHANGED <<valueVars, codecVars, alignVars, enumVars>>

\* Hive::CurrentUser.create(p, s)
HiveCreate(p, s) ==
    /\ Len(split_path(p)) <= MaxDepth
    /\ kop' = "hive_create"
    /\ karg' = p
    /\ kresult' = Hive_create("CurrentUser", p, s)
    /\ keys' = IF kresult'.kind = "Ok"
               THEN WithKey(keys, "CurrentUser", kresult'.key.handle.at)
               ELSE keys
    /\ UNCHANGED <<key, sec>>
    /\ UNCHANGED <<valueVars, codecVars, alignVars, enumVars>>

\* RegKey::open_current_user(s)
OpenCurrentUser(s) ==
    /\ kop' = "open_current_user"
    /\ karg' = <<>>
    /\ kresult' = open_current_user(s)
    /\ UNCHANGED <<keys, key, sec>>
    /\ UNCHANGED <<valueVars, codecVars, alignVars, enumVars>>

\* Hive::load_file(file, s)
LoadFile(exists, s) ==
    /\ kop' = "load_file"
    /\ karg' = <<>>
    /\ kresult' = load_file(exists, s)
    /\ UNCHANGED <<keys, key, sec>>
    /\ UNCHANGED <<valueVars, codecVars, alignVars, enumVars>>

\* the program goes on with the key it was returned
Descend ==
    /\ kresult.kind = "Ok"
    /\ key' = kresult.key
    /\ sec' = kresult.key.handle.sec
    /\ kop' = "idle"
    /\ karg' = <<>>
    /\ kresult' = KNoResult
    /\ UNCHANGED keys
    /\ UNCHANGED <<valueVars, codecVars, alignVars, enumVars>>

----------------------------------------------------------------------------
(* iter/values.rs: enumerating the values of a key *)

NameB == <<98>>
EnumNames == {NameA, NameB}

\* what is stored under the enumerated key: 2, 8 and 6 bytes
EnumData ==
    {DataBinary(<<255, 255>>),
     DataU64(<<4660, 65278, 4660, 65278>>),
     DataMultiString(<< <<97>> >>)}

\* one value of the key as the host holds it
Entry(n, t, b) == [name |-> n, ty |-> t, bytes |-> b]
HasName(vs, n) == \E i \in 1..Len(vs) : vs[i].name = n
IndexOf(vs, n) == CHOOSE i \in 1..Len(vs) : vs[i].name = n

\* RegSetValueExW on the key: an existing value is replaced in its place, a
\* new one is enumerated last
put_value(vs, n, t, b) ==
    IF HasName(vs, n) THEN [vs EXCEPT ![IndexOf(vs, n)] = Entry(n, t, b)]
    ELSE Append(vs, Entry(n, t, b))

\* struct Values { regkey, name_buf, data_buf, index }: the buffers are
\* cleared by every next(), only their lengths (in units) are state
Values(nb, db, i) == [active |-> TRUE, name_buf |-> nb, data_buf |-> db, index |-> i]
NoValues == [active |-> FALSE, name_buf |-> 0, data_buf |-> 0, index |-> 0]

\* Option<Result<ValueRef, Error>>
Item(k, n, d, e, i) == [kind |-> k, name |-> n, data |-> d, err |-> e, index |-> i]
NoItem == Item("NoItem", <<>>, DataNone, "", 0)
ItemNone == Item("None", <<>>, DataNone, "", 0)
ItemPanic == Item("Panic", <<>>, DataNone, "", 0)
SomeOk(n, d) == Item("SomeOk", n, d, "", 0)
SomeErr(e, i) == Item("SomeErr", <<>>, DataNone, e, i)

MaxOf(S) == CHOOSE x \in S : \A y \in S : y <= x

\* RegQueryInfoKeyW: lpcbMaxValueNameLen (units, without the terminator) and
\* lpcbMaxValueLen (bytes)
max_value_name_len(vs) ==
    IF vs = <<>> THEN 0 ELSE MaxOf({Len(vs[i].name) : i \in 1..Len(vs)})
max_value_data_len(vs) ==
    IF vs = <<>> THEN 0 ELSE MaxOf({Len(vs[i].bytes) : i \in 1..Len(vs)})
RegQueryInfoKeyW(s) ==
    IF HasQueryValue(s) THEN ERROR_SUCCESS ELSE ERROR_ACCESS_DENIED

\* Values::new
Values_new(vs) ==
    Values(max_value_name_len(vs) + 1, buf_units(max_value_data_len(vs)), 0)

ERROR_NO_MORE_ITEMS == 259

\* RegEnumValueW(handle, index, name_buf, &mut name_len, .., data_buf, &mut data_len)
RegEnumValueW(vs, index, name_len, data_len) ==
    IF index >= Len(vs) THEN ERROR_NO_MORE_ITEMS
    ELSE IF Len(vs[index + 1].name) + 1 > name_len THEN ERROR_MORE_DATA
    ELSE IF Len(vs[index + 1].bytes) > data_len THEN ERROR_MORE_DATA
    ELSE ERROR_SUCCESS

\* Values::next: the iterator afterwards and the item returned
Values_next(vs, it) ==
    LET data_len == it.data_buf * 2
        code == RegEnumValueW(vs, it.index, it.name_buf, data_len)
    IN  IF code = ERROR_NO_MORE_ITEMS THEN [iter |-> it, item |-> ItemNone]
        ELSE IF code # ERROR_SUCCESS
        THEN [iter |-> it, item |-> SomeErr("Unknown", it.index)]
        ELSE LET e == vs[it.index + 1]
                 advanced == [it EXCEPT !.index = @ + 1]
                 name == U16CString_new(e.name)
                 parsed == parse_value_type_data(e.ty,
                               read_into_u16_buf(it.data_buf, e.bytes))
             IN  IF ~name.ok
                 THEN [iter |-> advanced, item |-> SomeErr("InvalidNul", 0)]
                 ELSE IF parsed.kind = "Panic"
                 THEN [iter |-> advanced, item |-> ItemPanic]
                 ELSE IF parsed.kind = "Err"
                 THEN [iter |-> advanced, item |-> SomeErr("Data", 0)]
                 ELSE [iter |-> advanced, item |-> SomeOk(name.val, parsed.data)]

\* value::query_value on a value no one writes meanwhile
query_value(e) ==
    parse_value_type_data(e.ty,
        read_into_u16_buf(buf_units(Len(e.bytes)), e.bytes))

InitEnum ==
    /\ evalues = <<>>
    /\ iter = NoValues
    /\ item = NoItem
    /\ emodified = FALSE

\* set_value(n, d) on the enumerated key, through any handle with the right
EnumSetValue(n, d) ==
    /\ evalues' = put_value(evalues, n, U32Of(as_type(d)), to_bytes(d))
    /\ emodified' = (emodified \/ iter.active)
    /\ UNCHANGED <<iter, item>>
    /\ UNCHANGED <<storeVars, codecVars, alignVars, keyVars>>

\* RegKey::values(): Values::new, unreachable!() when the host refuses
ValuesNew ==
    /\ IF RegQueryInfoKeyW(sec) = ERROR_SUCCESS
       THEN /\ iter' = Values_new(evalues)
            /\ item' = NoItem
       ELSE /\ iter' = NoValues
            /\ item' = ItemPanic
    /\ emodified' = FALSE
    /\ UNCHANGED evalues
    /\ UNCHANGED <<storeVars, codecVars, alignVars, keyVars>>

\* Values::next
ValuesNext ==
    /\ iter.active
    /\ iter' = Values_next(evalues, iter).iter
    /\ item' = Values_next(evalues, iter).item
    /\ UNCHANGED <<evalues, emodified>>
    /\ UNCHANGED <<storeVars, codecVars, alignVars, keyVars>>

----------------------------------------------------------------------------
(* Specifications *)

Init == InitCodec /\ InitStore /\ InitAlign /\ InitKey /\ InitEnum

EncodeStep == op = "init" /\ \E d \in DataSet : Encode(d)
DecodeStep == op = "init" /\ \E t \in TagSet, b \in BufSet : Decode(t, b)
AlignedNewStep == op = "init" /\ \E n \in 0..MaxBin : AlignedNew(n)
AlignedFillStep == op = "new" /\ \E b \in BinSet : AlignedFill(b)
NextCodec ==
    \/ EncodeStep
    \/ DecodeStep
    \/ RoundTrip
    \/ AlignedNewStep
    \/ AlignedFillStep
    \/ IntoU16Vec

SetValueStep == \E n \in NameArgs, d \in StoreData : SetValue(n, d)
DeleteValueStep == \E n \in NameArgs : DeleteValue(n)
QuerySizeStep == \E n \in NameArgs : QuerySize(n)
HostWriteStep == \E n \in Names, raw \in RawSet : HostWrite(n, raw)
Next ==
    \/ SetValueStep
    \/ DeleteValueStep
    \/ QuerySizeStep
    \/ QueryData
    \/ HostWriteStep

\* the value operations against the host registry
Spec == Init /\ [][Next]_vars

KeyOpenStep == \E p \in PathSet, s \in SecuritySet : KeyOpen(p, s)
KeyCreateStep == \E p \in PathSet, s \in SecuritySet : KeyCreate(p, s)
HiveOpenStep == \E p \in PathSet, s \in SecuritySet : HiveOpen(p, s)
HiveCreateStep == \E p \in PathSet, s \in SecuritySet : HiveCreate(p, s)
OpenCurrentUserStep == \E s \in SecuritySet : OpenCurrentUser(s)
LoadFileStep == \E exists \in BOOLEAN, s \in SecuritySet : LoadFile(exists, s)
NextKey ==
    \/ KeyOpenStep
    \/ KeyCreateStep
    \/ HiveOpenStep
    \/ HiveCreateStep
    \/ OpenCurrentUserStep
    \/ LoadFileStep
    \/ Descend

\* opening and creating keys
SpecKey == Init /\ [][NextKey]_vars

\* the failing calls: value operations on a key that holds at most one
\* value of 4 or 8 bytes, and opening keys below it
ErrData == {DataU32(<<4660, 65278>>), DataU64(<<4660, 65278, 4660, 65278>>)}
SetValueErrStep == \E n \in NameArgs, d \in ErrData : SetValue(n, d)
NextErr ==
    \/ SetValueErrStep
    \/ DeleteValueStep
    \/ QuerySizeStep
    \/ QueryData
    \/ KeyOpenStep
SpecErr == Init /\ [][NextErr]_vars

EnumSetValueStep == \E n \in EnumNames, d \in EnumData : EnumSetValue(n, d)
NextEnum == EnumSetValueStep \/ ValuesNew \/ ValuesNext

\* enumerating the values of a key that is written to
SpecEnum == Init /\ [][NextEnum]_vars

\* the codec functions on their own; the handle plays no part
InitCodecOnly == Init /\ sec = "AllAccess"
SpecCodec == InitCodecOnly /\ [][NextCodec]_vars

----------------------------------------------------------------------------
(* Properties *)

IsHighSurrogate(u) == 55296 <= u /\ u <= 56319
IsLowSurrogate(u) == 56320 <= u /\ u <= 57343

\* well-formed UTF-16: every high surrogate is followed by a low one and
\* every low surrogate preceded by a high one
IsValidUtf16(s) ==
    \A i \in 1..Len(s) :
        /\ IsHighSurrogate(s[i]) => (i < Len(s) /\ IsLowSurrogate(s[i + 1]))
        /\ IsLowSurrogate(s[i]) => (i > 1 /\ IsHighSurrogate(s[i - 1]))

IsByte(b) == b \in 0..255

\* C1: a value() that runs after a successful set_value(name, d), with no
\* write to that value since, on a handle that may query, returns Ok(d).
\* Stated on the step that completes the read.
C1_ReadAfterWrite ==
    [][(/\ pc = "sized"
        /\ pc' = "done"
        /\ ~touched
        /\ written[qname].set
        /\ HasQueryValue(sec))
       => qresult' = Ok(written[qname].data)]_vars

\* C2: encoding U32(v), U32BE(v) or U64(v) and decoding the bytes with the
\* tag 4, 5 or 11 gives back the same Data.
C2_ScalarRoundTrip ==
    (op = "roundtrip" /\ data.variant \in {"U32", "U32BE", "U64"}) =>
        /\ data.variant = "U32" => ty = <<0, 4>>
        /\ data.variant = "U32BE" => ty = <<0, 5>>
        /\ data.variant = "U64" => ty = <<0, 11>>
        /\ result.kind = "Ok"
        /\ result.data.variant = data.variant
        /\ result.data.num = data.num

C2_Witness ==
    /\ op = "roundtrip"
    /\ data = DataU64(<<65535, 4660, 32768, 255>>)
    /\ result.kind = "Ok"
    /\ result.data.num = <<65535, 4660, 32768, 255>>

\* C3: encoding String(s) or ExpandString(s), s well-formed and free of NUL,
\* and decoding the bytes with tag 1 or 2 gives back the same Data.
C3_TextRoundTrip ==
    (/\ op = "roundtrip"
     /\ data.variant \in {"String", "ExpandString"}
     /\ \A i \in 1..Len(data.text) : data.text[i] # 0
     /\ IsValidUtf16(data.text)) =>
        /\ data.variant = "String" => ty = <<0, 1>>
        /\ data.variant = "ExpandString" => ty = <<0, 2>>
        /\ result.kind = "Ok"
        /\ result.data.variant = data.variant
        /\ result.data.text = data.text

C3_Witness ==
    /\ op = "roundtrip"
    /\ data = DataExpandString(<<55357, 56832>>)
    /\ result.kind = "Ok"
    /\ result.data.text = <<55357, 56832>>

\* C4: encoding MultiString(L) and decoding the bytes with tag 7 succeeds
\* and yields the entries of L, as many and in the same order.
C4_MultiStringRoundTrip ==
    (op = "roundtrip" /\ data.variant = "MultiString") =>
        /\ ty = <<0, 7>>
        /\ result.kind = "Ok"
        /\ result.data.variant = "MultiString"
        /\ Len(result.data.list) = Len(data.list)
        /\ \A i \in 1..Len(data.list) : result.data.list[i] = data.list[i]

\* C5: U32(v) encodes to 4 bytes least significant first, U32BE(v) to 4
\* bytes most significant first, the reversal of the former, and U64(v) to 8
\* bytes least significant first; the tags are 4, 5 and 11.
C5_IntegerByteOrder ==
    (op = "encode" /\ data.variant \in {"U32", "U32BE", "U64"}) =>
        /\ \A i \in 1..Len(vec) : IsByte(vec[i])
        /\ data.variant = "U32" =>
              /\ raw_ty = <<0, 4>>
              /\ Len(vec) = 4
              /\ vec[1] + 256 * vec[2] = data.num[2]
              /\ vec[3] + 256 * vec[4] = data.num[1]
              /\ to_bytes(DataU32BE(data.num)) = <<vec[4], vec[3], vec[2], vec[1]>>
        /\ data.variant = "U32BE" =>
              /\ raw_ty = <<0, 5>>
              /\ Len(vec) = 4
              /\ 256 * vec[1] + vec[2] = data.num[1]
              /\ 256 * vec[3] + vec[4] = data.num[2]
              /\ to_bytes(DataU32(data.num)) = <<vec[4], vec[3], vec[2], vec[1]>>
        /\ data.variant = "U64" =>
              /\ raw_ty = <<0, 11>>
              /\ Len(vec) = 8
              /\ \A k \in 1..4 : vec[2 * k - 1] + 256 * vec[2 * k] = data.num[5 - k]
        /\ data = DataU32(<<4660, 65278>>) => vec = <<254, 254, 52, 18>>
        /\ data = DataU32BE(<<4660, 65278>>) => vec = <<18, 52, 254, 254>>

C5_Witness ==
    /\ op = "encode"
    /\ data = DataU32BE(<<4660, 65278>>)
    /\ raw_ty = <<0, 5>>
    /\ vec = <<18, 52, 254, 254>>

\* the entries' code units, each entry followed by one zero unit
RECURSIVE TerminatedUnits(_)
TerminatedUnits(l) ==
    IF l = <<>> THEN <<>> ELSE Head(l) \o <<0>> \o TerminatedUnits(Tail(l))

\* C6: MultiString(L) encodes to every entry's units plus one zero unit,
\* then one more zero unit, low byte first; the last two code units (four
\* bytes) are zero, and the empty list encodes to exactly the double NUL.
C6_MultiStringDoubleNul ==
    (op = "encode" /\ data.variant = "MultiString") =>
        LET units == TerminatedUnits(data.list) \o <<0>>
            n == Len(vec)
        IN  /\ n = 2 * Len(units)
            /\ \A i \in 1..Len(units) :
                  IsByte(vec[2 * i - 1]) /\ IsByte(vec[2 * i]) /\
                  vec[2 * i - 1] + 256 * vec[2 * i] = units[i]
            /\ n >= 4
            /\ \A k \in (n - 3)..n : vec[k] = 0
            /\ data.list = <<>> => vec = <<0, 0, 0, 0>>

\* C7: a tag above 11 decodes to UnhandledType carrying the tag, whatever
\* the buffer; a tag in 0..11 never does.
C7_UnhandledType ==
    (op \in {"decode", "roundtrip"}) =>
        IF ty[1] > 0 \/ ty[2] > 11
        THEN /\ result.kind = "Err"
             /\ result.err = "UnhandledType"
             /\ result.tag = ty
        ELSE ~(result.kind = "Err" /\ result.err = "UnhandledType")

C7_Witness ==
    /\ op = "decode"
    /\ ty = <<65535, 65535>>
    /\ buf = <<97, 0>>
    /\ result.kind = "Err"
    /\ result.err = "UnhandledType"
    /\ result.tag = <<65535, 65535>>

\* C8: decode returns a Data or an error for every tag and buffer; it never
\* panics.
C8_DecodeTotal ==
    (op \in {"decode", "roundtrip"}) => result.kind \in {"Ok", "Err"}

\* C9: decoding tag 1 or 2 on a buffer without any zero code unit, the empty
\* buffer included, fails with MissingNul.
C9_MissingNul ==
    (/\ op = "decode"
     /\ ty \in {<<0, 1>>, <<0, 2>>}
     /\ \A i \in 1..Len(buf) : buf[i] # 0) =>
        /\ result.kind = "Err"
        /\ result.err = "MissingNul"

C9_Witness ==
    /\ op = "decode"
    /\ ty = <<0, 2>>
    /\ buf = <<97, 55357, 97>>
    /\ result.kind = "Err"
    /\ result.err = "MissingNul"

\* C10: when decoding tag 1 or 2 succeeds, the buffer's last code unit is
\* zero and the text is exactly the units before it.
C10_TerminatorIsLast ==
    (/\ op = "decode"
     /\ ty \in {<<0, 1>>, <<0, 2>>}
     /\ result.kind = "Ok") =>
        /\ Len(buf) >= 1
        /\ buf[Len(buf)] = 0
        /\ result.data.text = SubSeq(buf, 1, Len(buf) - 1)

\* C12: decoding tag 1, 2 or 7 on a properly terminated buffer whose text
\* holds an unpaired surrogate fails with InvalidUtf16.
C12_InvalidUtf16 ==
    (op = "decode" /\ ty \in {<<0, 1>>, <<0, 2>>, <<0, 7>>}) =>
        LET n == Len(buf)
            term == IF ty = <<0, 7>> THEN 2 ELSE 1
            terminated ==
                /\ n >= term
                /\ \A i \in (n - term + 1)..n : buf[i] = 0
                /\ ty # <<0, 7>> => \A i \in 1..(n - 1) : buf[i] # 0
        IN  (terminated /\ ~IsValidUtf16(SubSeq(buf, 1, n - term))) =>
                /\ result.kind = "Err"
                /\ result.err = "InvalidUtf16"

\* the entries joined by single zero units
RECURSIVE JoinNul(_)
JoinNul(l) ==
    IF Len(l) = 0 THEN <<>>
    ELSE IF Len(l) = 1 THEN Head(l)
    ELSE Head(l) \o <<0>> \o JoinNul(Tail(l))

\* l is the split of body on single zero units: one more entry than body has
\* zero units, no entry holds a zero, and the entries joined by zeros are body
IsSplitOf(l, body) ==
    /\ Len(l) = Cardinality({i \in 1..Len(body) : body[i] = 0}) + 1
    /\ \A k \in 1..Len(l) : \A i \in 1..Len(l[k]) : l[k][i] # 0
    /\ JoinNul(l) = body

\* C13: decoding tag 7 fails with MissingMultiNul when the buffer has fewer
\* than two units or one of its last two units is not zero; otherwise it
\* yields, in order, the split of the units before the last two on zero units.
C13_MultiStringDecode ==
    (op = "decode" /\ ty = <<0, 7>>) =>
        LET n == Len(buf) IN
        IF n < 2 \/ buf[n] # 0 \/ buf[n - 1] # 0
        THEN /\ result.kind = "Err"
             /\ result.err = "MissingMultiNul"
        ELSE /\ result.kind = "Ok"
             /\ result.data.variant = "MultiString"
             /\ IsSplitOf(result.data.list, SubSeq(buf, 1, n - 2))

C13_Witness ==
    /\ op = "decode"
    /\ ty = <<0, 7>>
    /\ buf = <<97, 0, 0, 0>>
    /\ result.kind = "Ok"
    /\ result.data.list = <<(<<97>>), (<<>>)>>

\* C14: decoding tag 3 on the buffer that holds the bytes b yields Binary(b),
\* the same length and the same bytes.
C14_BinaryPassthrough ==
    (op = "roundtrip" /\ data.variant = "Binary") =>
        /\ ty = <<0, 3>>
        /\ result.kind = "Ok"
        /\ result.data.variant = "Binary"
        /\ Len(result.data.bin) = Len(data.bin)
        /\ result.data.bin = data.bin

\* C17: U16AlignedU8Vec::new(n) holds exactly n zero bytes, and
\* into_u16_vec yields ceil(n / 2) units, unit i made of bytes 2i and 2i + 1
\* (from 0), low byte first, a zero byte standing in after an odd last byte.
C17_AlignedVec ==
    /\ op = "new" =>
          /\ Len(aligned.bytes) = asize
          /\ \A i \in 1..asize : aligned.bytes[i] = 0
    /\ op = "into_u16_vec" =>
          LET n == Len(aligned.bytes)
              b(k) == IF k <= n THEN aligned.bytes[k] ELSE 0
          IN  /\ n = asize
              /\ Len(units16) = (n + 1) \div 2
              /\ \A i \in 1..Len(units16) :
                    units16[i] = b(2 * i - 1) + 256 * b(2 * i)

C17_Witness ==
    /\ op = "into_u16_vec"
    /\ asize = 3
    /\ aligned.bytes = <<1, 255, 255>>
    /\ units16 = <<65281, 255>>

\* C11: reading a String or ExpandString value whose stored byte length is
\* odd fails with InvalidBufferSize.  Stated on the step that completes a
\* read no write has interfered with.
C11_OddTextLength ==
    [][(/\ pc = "sized"
        /\ pc' = "done"
        /\ ~touched
        /\ HasQueryValue(sec)
        /\ store[qname].present
        /\ store[qname].ty \in {<<0, 1>>, <<0, 2>>}
        /\ Len(store[qname].bytes) % 2 = 1)
       => (qresult'.kind = "Err" /\ qresult'.err = "InvalidBufferSize")]_vars

\* C20: when exactly one set_value replaces the value between the two host
\* calls of value(), the read returns the Data stored before that write, the
\* Data stored by it, or an error.
C20_TwoPhaseRead ==
    [][(/\ pc = "sized"
        /\ pc' = "done"
        /\ writes = 1
        /\ wbefore.set
        /\ written[qname].set
        /\ qresult'.kind = "Ok")
       => qresult'.data \in {wbefore.data, written[qname].data}]_vars

RECURSIVE JoinComponents(_)
JoinComponents(at) ==
    IF at = <<>> THEN <<>>
    ELSE <<Backslash>> \o Head(at) \o JoinComponents(Tail(at))

\* C15: the Display text of a key is the hive's name and then every
\* component of the key behind one backslash; open(P) and create(P) on a key
\* whose Display text is D return a key whose Display text is D, one
\* backslash, P.
C15_DisplayPath ==
    (kop \in {"open", "create"} /\ kresult.kind = "Ok") =>
        /\ Display(kresult.key) = Display(key) \o <<Backslash>> \o karg
        /\ Display(kresult.key) =
              HiveName(kresult.key.hive) \o JoinComponents(kresult.key.handle.at)

\* C16: a missing key path gives key::Error::NotFound with that path, a
\* missing value name gives value::Error::NotFound with that name on read and
\* on delete, a refusal by the host gives PermissionDenied, any other host
\* failure gives Unknown; no failing call changes the keys or the values.
C16_ErrorMapping ==
    [][/\ \A n \in Names :
            /\ (QuerySize(n) /\ ~HasQueryValue(sec)) =>
                    qresult' = ErrNamed("PermissionDenied", n)
            /\ (QuerySize(n) /\ HasQueryValue(sec) /\ ~store[n].present) =>
                    qresult' = ErrNamed("NotFound", n)
            /\ (DeleteValue(n) /\ ~HasSetValue(sec)) =>
                    wresult' = ErrNamed("PermissionDenied", n)
            /\ (DeleteValue(n) /\ HasSetValue(sec) /\ ~store[n].present) =>
                    wresult' = ErrNamed("NotFound", n)
            /\ \A d \in ErrData :
                  (SetValue(n, d) /\ ~HasSetValue(sec)) =>
                    wresult' = ErrNamed("PermissionDenied", n)
       /\ (QueryData /\ HasQueryValue(sec) /\ ~store[qname].present) =>
               qresult' = ErrNamed("NotFound", qname)
       /\ (QueryData /\ HasQueryValue(sec) /\ store[qname].present
                     /\ Len(store[qname].bytes) > sz) =>
               qresult' = ErrNamed("Unknown", qname)
       /\ \A p \in PathSet, s \in SecuritySet :
            (KeyOpen(p, s) /\ ~HasNul(p)) =>
               LET at == key.handle.at \o split_path(p) IN
               /\ (p[1] # Backslash /\ at \notin keys[key.hive]) =>
                     kresult' = KErr("NotFound", p)
               /\ (p[1] # Backslash /\ at \in keys[key.hive]
                                    /\ ReadOnly(at) /\ s # "Read") =>
                     kresult' = KErr("PermissionDenied", p)
               /\ p[1] = Backslash => kresult' = KErr("Unknown", p)
       /\ (qresult' # qresult /\ qresult'.kind = "Err") =>
               (store' = store /\ keys' = keys)
       /\ (wresult' # wresult /\ wresult'.kind = "Err") =>
               (store' = store /\ keys' = keys)
       /\ (kresult' # kresult /\ kresult'.kind = "Err") =>
               (store' = store /\ keys' = keys)
      ]_vars

C16_Witness ==
    /\ kresult = KErr("NotFound", CompA)
    /\ qresult = ErrNamed("NotFound", NameA)
    /\ wresult = ErrNamed("PermissionDenied", NameA)
    /\ store[NameA] = Absent

\* C18: while the key is not written to and holds several values of
\* different data lengths, the Data of every item values() yields equals what
\* value(name) returns for the item's name.
C18_EnumerationAgrees ==
    (/\ item.kind = "SomeOk"
     /\ ~emodified
     /\ Len(evalues) > 1
     /\ \E i, j \in 1..Len(evalues) :
            Len(evalues[i].bytes) # Len(evalues[j].bytes)) =>
        /\ HasName(evalues, item.name)
        /\ Ok(item.data) = query_value(evalues[IndexOf(evalues, item.name)])

\* C19: every Values::next that returns Some, Ok or Err, leaves the index
\* one higher than it found it.
C19_NextAdvances ==
    [][(ValuesNext /\ item'.kind \in {"SomeOk", "SomeErr"})
       => iter'.index = iter.index + 1]_vars

====
